---- MODULE Spec2Model ----
(***************************************************************************)
(* Model of tgd_header::detail::file (include/tgd_header/file.hpp): a      *)
(* move-only owner of one OS file descriptor.  The state is the m_fd field *)
(* of every live instance together with the part of the operating system   *)
(* the class talks to: the table of open descriptors, errno, the history   *)
(* of ::close calls per descriptor value, the files that ::open and        *)
(* ::fstat see, and (for the MSVC build) the C runtime's invalid-parameter *)
(* settings.                                                               *)
(***************************************************************************)
EXTENDS Integers, Sequences, FiniteSets, TLC

\* ---- bounds -------------------------------------------------------------
NumInst == 2
MaxHandle == 3
\* largest file length, in bytes
MaxSize == 1

Inst == 1..NumInst

\* ---- program constants --------------------------------------------------
\* int m_fd = -1;  the value of an instance that owns nothing
Sentinel == -1
\* if (m_fd >= 2): descriptors below this value are never closed
ReservedLimit == 2

Handles == Sentinel..MaxHandle
Reserved == 0..(ReservedLimit - 1)
Errnos == {"none", "EBADF", "EIO", "EINTR", "ENOENT"}

\* const std::string& filename: the paths handed to open_file
Paths == {"a", "b"}
\* what an open descriptor refers to: a file (by path), or something that is
\* not a regular file (a terminal, a pipe), whose st_size is 0
Objects == Paths \cup {"none", "stream"}

VARIABLES
    live,          \* instances constructed and not yet destroyed
    m_fd,          \* m_fd[i]: the descriptor value held by instance i
    osOpen,        \* descriptor values open in the OS descriptor table
    errno,         \* the C library's errno
    osCloseRets,   \* osCloseRets[h]: return values of every ::close(h) so far
    wrapped,       \* descriptor values that entered through file(int fd)
    last,          \* the most recent operation, its operands and its outcome
    fs,            \* fs[p]: whether path p exists, and its length
    fdObj,         \* fdObj[h]: the object open descriptor h refers to
    fdPos,         \* fdPos[h]: the read/write position of open descriptor h
    crt            \* MSVC runtime: invalid-parameter handler, report mode

vars == <<live, m_fd, osOpen, errno, osCloseRets, wrapped, last, fs, fdObj,
          fdPos, crt>>

\* ---- events recorded for one operation ----------------------------------
OsCloseEvent(i, fd, ret) == [ev |-> "os_close", inst |-> i, fd |-> fd, ret |-> ret]
StoreEvent(i, fd) == [ev |-> "store", inst |-> i, fd |-> fd, ret |-> 0]

\* ---- the OS close primitive ---------------------------------------------
\* ::close(fd): 0 on success; -1 with errno set on failure.  A descriptor
\* that is not open fails with EBADF.  An open one may fail with EIO (the
\* descriptor is released anyway) or EINTR (whether the descriptor is
\* released is unspecified, so both outcomes are possible).
OsClose(fd, open, err) ==
    IF fd \in open
    THEN { [ret |-> 0, errno |-> err, open |-> open \ {fd}],
           [ret |-> -1, errno |-> "EIO", open |-> open \ {fd}],
           [ret |-> -1, errno |-> "EINTR", open |-> open \ {fd}],
           [ret |-> -1, errno |-> "EINTR", open |-> open] }
    ELSE { [ret |-> -1, errno |-> "EBADF", open |-> open] }

\* ---- file::close --------------------------------------------------------
NeedsOsCloseAlways(fd) == TRUE
NeedsOsCloseOffByOne(fd) == fd >= ReservedLimit - 1
\* if (m_fd >= 2)
NeedsOsClose(fd) == fd >= ReservedLimit

CloseThrowsNever(ret) == FALSE
\* if (::close(m_fd) != 0) { ...; throw std::system_error{errno, ...}; }
CloseThrows(ret) == ret # 0

FdKeptAfterFailedClose(fd) == fd
\* m_fd = -1;  in the failure branch, before the throw
FdAfterFailedClose(fd) == Sentinel

FdKeptAfterClose(fd) == fd
\* m_fd = -1;  after a successful ::close
FdAfterClose(fd) == Sentinel

\* close() run by instance i holding m with the OS in state (open, err):
\* the set of possible outcomes, one per outcome of ::close.
CloseResults(i, m, open, err) ==
    IF NeedsOsClose(m)
    THEN { LET fd2 == IF o.ret # 0 THEN FdAfterFailedClose(m) ELSE FdAfterClose(m)
               thr == CloseThrows(o.ret)
           IN  [m_fd |-> fd2,
                threw |-> thr,
                code |-> IF thr THEN o.errno ELSE "none",
                open |-> o.open,
                errno |-> o.errno,
                events |-> <<OsCloseEvent(i, m, o.ret), StoreEvent(i, fd2)>>]
           : o \in OsClose(m, open, err) }
    ELSE { [m_fd |-> m, threw |-> FALSE, code |-> "none", open |-> open,
            errno |-> err, events |-> <<>>] }

\* ---- bookkeeping of ::close calls ---------------------------------------
RECURSIVE LogCloses(_, _)
LogCloses(rets, events) ==
    IF events = <<>> THEN rets
    ELSE LET e == Head(events)
             r == IF e.ev = "os_close"
                  THEN [rets EXCEPT ![e.fd] = Append(@, e.ret)]
                  ELSE rets
         IN  LogCloses(r, Tail(events))

closeCalls(h) == Len(osCloseRets[h])

OsCloseEvents(events) == { k \in 1..Len(events) : events[k].ev = "os_close" }

\* The descriptor table after ::close calls left `open` open: a released
\* descriptor refers to nothing and has no position.
PruneObj(obj, open) == [h \in Handles |-> IF h \in open THEN obj[h] ELSE "none"]
PrunePos(pos, open) == [h \in Handles |-> IF h \in open THEN pos[h] ELSE 0]

\* ---- construction -------------------------------------------------------
Init ==
    /\ live = {}
    /\ m_fd = [i \in Inst |-> Sentinel]
    /\ osOpen = Reserved
    /\ errno = "none"
    /\ osCloseRets = [h \in Handles |-> <<>>]
    /\ wrapped = {}
    /\ last = [op |-> "init", self |-> 0, other |-> 0, pre |-> Sentinel,
               preOther |-> Sentinel, threw |-> FALSE, code |-> "none",
               events |-> <<>>]
    /\ fs = [p \in Paths |-> IF p = "a" THEN [exists |-> TRUE, size |-> MaxSize]
                                         ELSE [exists |-> FALSE, size |-> 0]]
    /\ fdObj = [h \in Handles |-> IF h \in Reserved THEN "stream" ELSE "none"]
    /\ fdPos = [h \in Handles |-> 0]
    /\ crt = [handler |-> "default", mode |-> "wndw", aborted |-> FALSE]

\* explicit file(int fd) noexcept : m_fd(fd)
\* The caller hands over a descriptor value no other instance was given.
\* valid: the value names a descriptor the caller has open (it is in the OS
\* table); otherwise the value is stale or was invalidated externally.
Wrap(i, fd, valid) ==
    /\ i \notin live
    /\ fd = Sentinel \/ fd \notin wrapped
    /\ fd = Sentinel => ~valid
    /\ fd \in osOpen => valid
    /\ live' = live \cup {i}
    /\ m_fd' = [m_fd EXCEPT ![i] = fd]
    /\ osOpen' = IF valid THEN osOpen \cup {fd} ELSE osOpen
    /\ wrapped' = IF fd = Sentinel THEN wrapped ELSE wrapped \cup {fd}
    /\ last' = [op |-> "wrap", self |-> i, other |-> i, pre |-> fd,
                preOther |-> fd, threw |-> FALSE, code |-> "none",
                events |-> <<StoreEvent(i, fd)>>]
    /\ fdObj' = IF valid /\ fd \notin osOpen
                THEN [fdObj EXCEPT ![fd] = "stream"] ELSE fdObj
    /\ UNCHANGED <<errno, osCloseRets, fs, fdPos, crt>>

MoveCtorSourceKept(fd) == fd
\* other.m_fd = -1;  in file(file&& other)
MoveCtorSource(fd) == Sentinel

\* file(file&& other) noexcept : m_fd(other.m_fd) { other.m_fd = -1; }
MoveConstruct(i, other) ==
    /\ i \notin live
    /\ other \in live
    /\ live' = live \cup {i}
    /\ m_fd' = [m_fd EXCEPT ![i] = m_fd[other],
                            ![other] = MoveCtorSource(m_fd[other])]
    /\ last' = [op |-> "move_construct", self |-> i, other |-> other,
                pre |-> Sentinel, preOther |-> m_fd[other], threw |-> FALSE,
                code |-> "none",
                events |-> <<StoreEvent(i, m_fd[other]),
                             StoreEvent(other, MoveCtorSource(m_fd[other]))>>]
    /\ UNCHANGED <<osOpen, errno, osCloseRets, wrapped, fs, fdObj, fdPos, crt>>

\* ---- file::operator=(file&&) --------------------------------------------
MoveAssignPropagatesClose(threw) == threw
\* try { close(); } catch (...) { }  : nothing leaves the move assignment
MoveAssignPropagates(threw) == FALSE

MoveAssignSourceKept(fd) == fd
\* other.m_fd = -1;  in operator=(file&& other)
MoveAssignSource(fd) == Sentinel

\* A variant that takes other's descriptor first and releases afterwards.
MoveAssignTakeFirst(self, other, fds, open, err) ==
    { [fds |-> [fds EXCEPT ![self] = r.m_fd, ![other] = MoveAssignSource(fds[other])],
       open |-> r.open, errno |-> r.errno, threw |-> FALSE, code |-> "none",
       events |-> <<StoreEvent(self, fds[other]),
                    StoreEvent(other, MoveAssignSource(fds[other]))>> \o r.events]
      : r \in CloseResults(self, fds[other], open, err) }

\* A variant that exchanges the two values and releases nothing.
MoveAssignSwap(self, other, fds, open, err) ==
    { [fds |-> [fds EXCEPT ![self] = fds[other], ![other] = fds[self]],
       open |-> open, errno |-> err, threw |-> FALSE, code |-> "none",
       events |-> <<StoreEvent(self, fds[other]), StoreEvent(other, fds[self])>>] }

\* The body of operator=: close() on the destination inside try/catch, then
\* m_fd = other.m_fd; other.m_fd = -1.  One outcome per outcome of close().
\* other.m_fd is read after close() has run, which matters only when other
\* is the destination itself.
MoveAssignResults(self, other, fds, open, err) ==
    { IF MoveAssignPropagates(r.threw)
      THEN [fds |-> [fds EXCEPT ![self] = r.m_fd],
            open |-> r.open, errno |-> r.errno, threw |-> TRUE,
            code |-> r.code, events |-> r.events]
      ELSE LET closed == [fds EXCEPT ![self] = r.m_fd]
               taken == [closed EXCEPT ![self] = closed[other]]
               left == MoveAssignSource(taken[other])
           IN  [fds |-> [taken EXCEPT ![other] = left],
                open |-> r.open, errno |-> r.errno, threw |-> FALSE,
                code |-> "none",
                events |-> r.events \o <<StoreEvent(self, closed[other]),
                                         StoreEvent(other, left)>>]
      : r \in CloseResults(self, fds[self], open, err) }

\* a = std::move(b); assert(this != &other) excludes self-assignment.
MoveAssign(self, other) ==
    /\ self \in live
    /\ other \in live
    /\ self # other
    /\ \E r \in MoveAssignResults(self, other, m_fd, osOpen, errno) :
        /\ m_fd' = r.fds
        /\ osOpen' = r.open
        /\ errno' = r.errno
        /\ osCloseRets' = LogCloses(osCloseRets, r.events)
        /\ last' = [op |-> "move_assign", self |-> self, other |-> other,
                    pre |-> m_fd[self], preOther |-> m_fd[other],
                    threw |-> r.threw, code |-> r.code, events |-> r.events]
    /\ fdObj' = PruneObj(fdObj, osOpen')
    /\ fdPos' = PrunePos(fdPos, osOpen')
    /\ UNCHANGED <<live, wrapped, fs, crt>>

\* ---- file::~file --------------------------------------------------------
DtorPropagatesClose(threw) == threw
\* try { close(); } catch (...) { }  : nothing leaves the destructor
DtorPropagates(threw) == FALSE

DtorNoRelease(i, m, open, err) ==
    { [m_fd |-> m, threw |-> FALSE, code |-> "none", open |-> open,
       errno |-> err, events |-> <<>>] }
\* the close() call made by the destructor
DtorRelease(i, m, open, err) == CloseResults(i, m, open, err)

\* ~file() noexcept: the instance ceases to exist whatever close() did.
Destroy(i) ==
    /\ i \in live
    /\ \E r \in DtorRelease(i, m_fd[i], osOpen, errno) :
        /\ osOpen' = r.open
        /\ errno' = r.errno
        /\ osCloseRets' = LogCloses(osCloseRets, r.events)
        /\ last' = [op |-> "destroy", self |-> i, other |-> i,
                    pre |-> m_fd[i], preOther |-> m_fd[i],
                    threw |-> DtorPropagates(r.threw),
                    code |-> IF DtorPropagates(r.threw) THEN r.code ELSE "none",
                    events |-> r.events]
    /\ live' = live \ {i}
    /\ m_fd' = [m_fd EXCEPT ![i] = Sentinel]
    /\ fdObj' = PruneObj(fdObj, osOpen')
    /\ fdPos' = PrunePos(fdPos, osOpen')
    /\ UNCHANGED <<wrapped, fs, crt>>

\* ---- explicit close() ---------------------------------------------------
Close(i) ==
    /\ i \in live
    /\ \E r \in CloseResults(i, m_fd[i], osOpen, errno) :
        /\ m_fd' = [m_fd EXCEPT ![i] = r.m_fd]
        /\ osOpen' = r.open
        /\ errno' = r.errno
        /\ osCloseRets' = LogCloses(osCloseRets, r.events)
        /\ last' = [op |-> "close", self |-> i, other |-> i,
                    pre |-> m_fd[i], preOther |-> m_fd[i],
                    threw |-> r.threw, code |-> r.code, events |-> r.events]
    /\ fdObj' = PruneObj(fdObj, osOpen')
    /\ fdPos' = PrunePos(fdPos, osOpen')
    /\ UNCHANGED <<live, wrapped, fs, crt>>

\* int fd() const noexcept { return m_fd; }
fd(i) == m_fd[i]

Next ==
    \/ \E i \in Inst, h \in Handles, valid \in BOOLEAN : Wrap(i, h, valid)
    \/ \E i \in Inst, other \in Inst : MoveConstruct(i, other)
    \/ \E self \in Inst, other \in Inst : MoveAssign(self, other)
    \/ \E i \in Inst : Close(i)
    \/ \E i \in Inst : Destroy(i)

Spec == Init /\ [][Next]_vars

\* ---- the OS open primitive ----------------------------------------------
OsOpenEvent(path, ret) == [ev |-> "os_open", inst |-> 0, fd |-> ret, ret |-> ret, path |-> path]

FreeHandles(open) == (0..MaxHandle) \ open
\* POSIX: the lowest-numbered descriptor not currently open
LowestFree(open) == CHOOSE h \in FreeHandles(open) : \A g \in FreeHandles(open) : h <= g

\* ::open(path, flags, mode), with flags reduced to whether O_CREAT is set.
\* A missing path without O_CREAT fails with ENOENT.  Otherwise the call
\* returns the lowest free descriptor, positioned at 0; with O_CREAT a
\* missing path is created empty.  Failures for lack of descriptors or of
\* permissions are not part of this model of the environment.
OsOpen(path, creat, files, open, err) ==
    IF ~files[path].exists /\ ~creat
    THEN { [ret |-> -1, errno |-> "ENOENT", files |-> files, open |-> open] }
    ELSE { [ret |-> LowestFree(open), errno |-> err,
            files |-> [files EXCEPT ![path] =
                          IF @.exists THEN @ ELSE [exists |-> TRUE, size |-> 0]],
            open |-> open \cup {LowestFree(open)}] }

\* ---- file::open_file ----------------------------------------------------
OpenThrowsNever(ret) == FALSE
OpenThrowsNonZero(ret) == ret # 0
\* if (fd < 0) { throw std::system_error{errno, ...}; }
OpenThrows(ret) == ret < 0

OpenErrorMessageNoPath(filename) == <<"Error opening file: ">>
\* std::string{"Error opening file '"} + filename + "': "
OpenErrorMessage(filename) == <<"Error opening file '", filename, "': ">>

\* open_file(filename, flags, args...): the possible outcomes.  `returned`
\* holds the value handed back to the caller; it is empty when the call
\* leaves by an exception.
OpenFileResults(filename, creat, files, open, err) ==
    { LET thr == OpenThrows(o.ret)
      IN  [returned |-> IF thr THEN <<>> ELSE <<o.ret>>,
           threw |-> thr,
           code |-> IF thr THEN o.errno ELSE "none",
           msg |-> IF thr THEN OpenErrorMessage(filename) ELSE <<>>,
           files |-> o.files,
           open |-> o.open,
           errno |-> o.errno,
           events |-> <<OsOpenEvent(filename, o.ret)>>]
      : o \in OsOpen(filename, creat, files, open, err) }

\* static int open_file(const std::string& filename, int flags, TArgs... args)
\* The guard keeps the descriptor table within the bound of the model.
OpenFile(filename, creat) ==
    /\ FreeHandles(osOpen) # {}
    /\ \E r \in OpenFileResults(filename, creat, fs, osOpen, errno) :
        /\ fs' = r.files
        /\ osOpen' = r.open
        /\ errno' = r.errno
        /\ fdObj' = [h \in Handles |->
                        IF h \in r.open \ osOpen THEN filename ELSE fdObj[h]]
        /\ fdPos' = [h \in Handles |->
                        IF h \in r.open \ osOpen THEN 0 ELSE fdPos[h]]
        /\ last' = [op |-> "open", self |-> 0, other |-> 0, pre |-> Sentinel,
                    preOther |-> Sentinel, threw |-> r.threw, code |-> r.code,
                    events |-> r.events, path |-> filename, creat |-> creat,
                    returned |-> r.returned, msg |-> r.msg]
    /\ UNCHANGED <<live, m_fd, osCloseRets, wrapped, crt>>

\* ---- the OS metadata query ----------------------------------------------
OsFstatEvent(i, desc, ret) == [ev |-> "os_fstat", inst |-> i, fd |-> desc, ret |-> ret]

\* st_size of what a descriptor refers to: the length of the file, 0 for
\* something that is not a regular file
ObjSize(o, files) == IF o \in Paths THEN files[o].size ELSE 0

\* ::fstat(desc, &s): 0 and the metadata for an open descriptor, -1 with EBADF
\* for any value that is not one (the sentinel included).  An I/O error of
\* the query itself is not part of this model of the environment.
OsFstat(desc, open, obj, files, err) ==
    IF desc \in open
    THEN { [ret |-> 0, errno |-> err, st_size |-> ObjSize(obj[desc], files)] }
    ELSE { [ret |-> -1, errno |-> "EBADF", st_size |-> 0] }

\* ---- file::file_size (Unix implementation) ------------------------------
StatSizeFromCursor(size, pos) == IF size >= pos THEN size - pos ELSE 0
\* return static_cast<std::size_t>(s.st_size);  the position of the
\* descriptor plays no part.  st_size is non-negative and within size_t.
StatSize(size, pos) == size

FileSizeThrowsNever(ret) == FALSE
\* if (::fstat(m_fd, &s) != 0) { throw std::system_error{errno, ...}; }
FileSizeThrows(ret) == ret # 0

FdResetByFailedFileSize(m, ret) == IF ret # 0 THEN Sentinel ELSE m
\* std::size_t file_size() const: m_fd is not assigned
FdAfterFileSize(m, ret) == m

\* file_size() run by instance i holding m: the possible outcomes.
FileSizeResults(i, m, open, obj, pos, files, err) ==
    { LET thr == FileSizeThrows(o.ret)
      IN  [m_fd |-> FdAfterFileSize(m, o.ret),
           threw |-> thr,
           code |-> IF thr THEN o.errno ELSE "none",
           value |-> IF thr THEN <<>> ELSE <<StatSize(o.st_size, pos[m])>>,
           errno |-> o.errno,
           events |-> <<OsFstatEvent(i, m, o.ret)>>]
      : o \in OsFstat(m, open, obj, files, err) }

FileSize(i) ==
    /\ i \in live
    /\ \E r \in FileSizeResults(i, m_fd[i], osOpen, fdObj, fdPos, fs, errno) :
        /\ m_fd' = [m_fd EXCEPT ![i] = r.m_fd]
        /\ errno' = r.errno
        /\ last' = [op |-> "file_size", self |-> i, other |-> i,
                    pre |-> m_fd[i], preOther |-> m_fd[i],
                    threw |-> r.threw, code |-> r.code, events |-> r.events,
                    value |-> r.value]
    /\ UNCHANGED <<live, osOpen, osCloseRets, wrapped, fs, fdObj, fdPos, crt>>

\* ---- file::fd -----------------------------------------------------------
\* A call of fd(): the caller receives the value, nothing else happens.
Fd(i) ==
    /\ i \in live
    /\ last' = [op |-> "fd", self |-> i, other |-> i, pre |-> m_fd[i],
                preOther |-> m_fd[i], threw |-> FALSE, code |-> "none",
                events |-> <<>>, value |-> <<fd(i)>>]
    /\ UNCHANGED <<live, m_fd, osOpen, errno, osCloseRets, wrapped, fs, fdObj,
                   fdPos, crt>>

\* ---- code using the raw descriptor obtained from fd() -------------------
\* Reading, writing or seeking through the raw descriptor moves its position.
Seek(i, pos) ==
    /\ i \in live
    /\ m_fd[i] \in osOpen
    /\ fdObj[m_fd[i]] \in Paths
    /\ fdPos[m_fd[i]] # pos
    /\ fdPos' = [fdPos EXCEPT ![m_fd[i]] = pos]
    /\ last' = [op |-> "seek", self |-> i, other |-> i, pre |-> m_fd[i],
                preOther |-> m_fd[i], threw |-> FALSE, code |-> "none",
                events |-> <<>>]
    /\ UNCHANGED <<live, m_fd, osOpen, errno, osCloseRets, wrapped, fs, fdObj, crt>>

\* The file at `path` is extended or truncated to n bytes.
WriteFile(path, n) ==
    /\ fs[path].exists
    /\ fs[path].size # n
    /\ fs' = [fs EXCEPT ![path].size = n]
    /\ last' = [op |-> "write", self |-> 0, other |-> 0, pre |-> Sentinel,
                preOther |-> Sentinel, threw |-> FALSE, code |-> "none",
                events |-> <<>>, path |-> path]
    /\ UNCHANGED <<live, m_fd, osOpen, errno, osCloseRets, wrapped, fdObj, fdPos, crt>>

\* ---- the class together with open_file, file_size and raw-descriptor use -
\* Here instances wrap the descriptors that open_file returned.
WrapOpened(i, h) ==
    /\ h \in osOpen
    /\ fdObj[h] \in Paths
    /\ Wrap(i, h, TRUE)

NextIO ==
    \/ \E i \in Inst, h \in Handles : WrapOpened(i, h)
    \/ \E i \in Inst, other \in Inst : MoveConstruct(i, other)
    \/ \E self \in Inst, other \in Inst : MoveAssign(self, other)
    \/ \E i \in Inst : Close(i)
    \/ \E i \in Inst : Destroy(i)
    \/ \E path \in Paths, creat \in BOOLEAN : OpenFile(path, creat)
    \/ \E i \in Inst : FileSize(i)

SpecIO == Init /\ [][NextIO]_vars

\* file_size() on instances of open_file's descriptors, while the files grow
\* or shrink and the descriptors' read/write positions move
NextSize ==
    \/ \E i \in Inst, h \in Handles : WrapOpened(i, h)
    \/ \E path \in Paths, creat \in BOOLEAN : OpenFile(path, creat)
    \/ \E i \in Inst : FileSize(i)
    \/ \E i \in Inst, pos \in 0..MaxSize : Seek(i, pos)
    \/ \E path \in Paths, n \in 0..MaxSize : WriteFile(path, n)

SpecSize == Init /\ [][NextSize]_vars

\* ---- the class with its two read-only operations ------------------------
\* Instances wrap any value here: open descriptors, stale values, 0 and 1.
NextAccess ==
    \/ \E i \in Inst, h \in Handles, valid \in BOOLEAN : Wrap(i, h, valid)
    \/ \E i \in Inst, other \in Inst : MoveConstruct(i, other)
    \/ \E self \in Inst, other \in Inst : MoveAssign(self, other)
    \/ \E i \in Inst : Close(i)
    \/ \E i \in Inst : Destroy(i)
    \/ \E i \in Inst : FileSize(i)
    \/ \E i \in Inst : Fd(i)

SpecAccess == Init /\ [][NextAccess]_vars

\* ---- MSVC build: detail::disable_invalid_parameter_handler ---------------
\* crt.handler: the thread's invalid-parameter handler: "default" (none set:
\* the runtime terminates the process), "app" (one the application
\* installed) or "noop" (invalid_parameter_handler of this class).
\* crt.mode: the report mode of _CRT_ASSERT: "none" (0), "debug" or "wndw".
CrtHandlers == {"default", "app", "noop"}
CrtModes == {"none", "debug", "wndw"}

DiphHandlerUnchanged(old) == old
\* old_handler(_set_thread_local_invalid_parameter_handler(invalid_parameter_handler))
DiphHandler(old) == "noop"

DiphModeUnchanged(old) == old
\* old_report_mode(_CrtSetReportMode(_CRT_ASSERT, 0))
DiphMode(old) == "none"

DiphRestoresOnReturnOnly(threw) == ~threw
\* ~disable_invalid_parameter_handler() runs when the scope of diph is left,
\* by return and by exception alike
DiphRestores(threw) == TRUE

\* _CrtSetReportMode(_CRT_ASSERT, old_report_mode);
\* _set_thread_local_invalid_parameter_handler(old_handler);
DiphRestored(old, cur, threw) ==
    IF DiphRestores(threw)
    THEN [handler |-> old.handler, mode |-> old.mode, aborted |-> cur.aborted]
    ELSE cur

OsFileLengthEvent(i, desc, ret, during) ==
    [ev |-> "os_filelength", inst |-> i, fd |-> desc, ret |-> ret,
     handler |-> during.handler, mode |-> during.mode]

\* ::_filelengthi64(desc): the length for an open descriptor.  For any other
\* value the runtime validates the parameter: with report mode "wndw" the
\* assertion dialog may end the process; the handler is then invoked, which
\* ends the process when it is the default one and may do so when it is the
\* application's; if the process survives the call returns -1 with EBADF.
OsFileLength(desc, open, obj, files, err, c) ==
    IF desc \in open
    THEN { [ret |-> ObjSize(obj[desc], files), errno |-> err, aborted |-> FALSE] }
    ELSE LET mayDie == c.handler # "noop" \/ c.mode = "wndw"
             maySurvive == c.handler # "default"
         IN  { [ret |-> -1, errno |-> "EBADF", aborted |-> ab] :
               ab \in { x \in BOOLEAN : IF x THEN mayDie ELSE maySurvive } }

\* file_size(), MSVC implementation: diph is constructed, the length is
\* queried, a negative result raises system_error{errno}, diph is destroyed.
\* When the runtime ends the process nothing after the query runs.
FileSizeWinResults(i, m, open, obj, files, err, c) ==
    LET during == [handler |-> DiphHandler(c.handler), mode |-> DiphMode(c.mode),
                   aborted |-> c.aborted]
    IN  { IF o.aborted
          THEN [threw |-> FALSE, code |-> "none", value |-> <<>>,
                errno |-> o.errno,
                crt |-> [during EXCEPT !.aborted = TRUE],
                events |-> <<OsFileLengthEvent(i, m, o.ret, during)>>]
          ELSE [threw |-> o.ret < 0,
                code |-> IF o.ret < 0 THEN o.errno ELSE "none",
                value |-> IF o.ret < 0 THEN <<>> ELSE <<o.ret>>,
                errno |-> o.errno,
                crt |-> DiphRestored(c, during, o.ret < 0),
                events |-> <<OsFileLengthEvent(i, m, o.ret, during)>>]
          : o \in OsFileLength(m, open, obj, files, err, during) }

FileSizeWin(i) ==
    /\ i \in live
    /\ \E r \in FileSizeWinResults(i, m_fd[i], osOpen, fdObj, fs, errno, crt) :
        /\ errno' = r.errno
        /\ crt' = r.crt
        /\ last' = [op |-> "file_size_win", self |-> i, other |-> i,
                    pre |-> m_fd[i], preOther |-> m_fd[i],
                    threw |-> r.threw, code |-> r.code, events |-> r.events,
                    value |-> r.value]
    /\ UNCHANGED <<live, m_fd, osOpen, osCloseRets, wrapped, fs, fdObj, fdPos>>

\* The application changes the runtime's settings.
SetCrt(handler, mode) ==
    /\ crt.handler # handler \/ crt.mode # mode
    /\ crt' = [crt EXCEPT !.handler = handler, !.mode = mode]
    /\ last' = [op |-> "set_crt", self |-> 0, other |-> 0, pre |-> Sentinel,
                preOther |-> Sentinel, threw |-> FALSE, code |-> "none",
                events |-> <<>>]
    /\ UNCHANGED <<live, m_fd, osOpen, errno, osCloseRets, wrapped, fs, fdObj,
                   fdPos>>

\* The class as built by MSVC.  Nothing runs once the runtime has ended the
\* process.
Running == ~crt.aborted
WinWrap(i, h, valid) == Running /\ Wrap(i, h, valid)
WinMoveConstruct(i, other) == Running /\ MoveConstruct(i, other)
WinClose(i) == Running /\ Close(i)
WinFileSize(i) == Running /\ FileSizeWin(i)
WinSetCrt(handler, mode) == Running /\ SetCrt(handler, mode)

NextWin ==
    \/ \E i \in Inst, h \in Handles, valid \in BOOLEAN : WinWrap(i, h, valid)
    \/ \E i \in Inst, other \in Inst : WinMoveConstruct(i, other)
    \/ \E i \in Inst : WinClose(i)
    \/ \E i \in Inst : WinFileSize(i)
    \/ \E handler \in {"default", "app"}, mode \in CrtModes : WinSetCrt(handler, mode)

SpecWin == Init /\ [][NextWin]_vars

\* ---- build with NDEBUG: assert(this != &other) is compiled out ----------
\* a = std::move(a)
SelfMoveAssign(i) ==
    /\ i \in live
    /\ \E r \in MoveAssignResults(i, i, m_fd, osOpen, errno) :
        /\ m_fd' = r.fds
        /\ osOpen' = r.open
        /\ errno' = r.errno
        /\ osCloseRets' = LogCloses(osCloseRets, r.events)
        /\ last' = [op |-> "self_move_assign", self |-> i, other |-> i,
                    pre |-> m_fd[i], preOther |-> m_fd[i],
                    threw |-> r.threw, code |-> r.code, events |-> r.events]
    /\ fdObj' = PruneObj(fdObj, osOpen')
    /\ fdPos' = PrunePos(fdPos, osOpen')
    /\ UNCHANGED <<live, wrapped, fs, crt>>

NextNDebug ==
    \/ Next
    \/ \E i \in Inst : SelfMoveAssign(i)

SpecNDebug == Init /\ [][NextNDebug]_vars

\* ---- type correctness ---------------------------------------------------
TypeOK ==
    /\ live \subseteq Inst
    /\ m_fd \in [Inst -> Handles]
    /\ osOpen \subseteq Handles
    /\ errno \in Errnos
    /\ wrapped \subseteq Handles \ {Sentinel}
    /\ \A h \in Handles : \A k \in 1..Len(osCloseRets[h]) : osCloseRets[h][k] \in {0, -1}
    /\ fs \in [Paths -> [exists : BOOLEAN, size : 0..MaxSize]]
    /\ fdObj \in [Handles -> Objects]
    /\ fdPos \in [Handles -> 0..MaxSize]
    /\ \A h \in Handles : (h \in osOpen) <=> (fdObj[h] # "none")
    /\ crt \in [handler : CrtHandlers, mode : CrtModes, aborted : BOOLEAN]

\* ---- helpers for the properties -----------------------------------------
FailedCloseIn(events) == \E k \in OsCloseEvents(events) : events[k].ret # 0
ClosedIn(events, h) == \E k \in OsCloseEvents(events) : events[k].fd = h
Holders(h) == { i \in live : m_fd[i] = h }

\* C1: the OS close primitive is invoked at most once on every descriptor
\* value, also when an earlier ::close on it reported failure.
C1_NoDoubleClose == \A h \in Handles : closeCalls(h) <= 1

\* A descriptor whose only ::close failed, and every instance destroyed since.
C1_Witness ==
    /\ live = {}
    /\ last.op = "destroy"
    /\ last.pre = Sentinel
    /\ \E h \in wrapped : h >= ReservedLimit /\ osCloseRets[h] = <<-1>>

\* C2: once every instance has been destroyed, every wrapped descriptor >= 2
\* has had ::close invoked on it exactly once.
C2_GuaranteedRelease ==
    live = {} => \A h \in wrapped : h >= ReservedLimit => closeCalls(h) = 1

\* Two descriptors >= 2 wrapped, moved and closed (one failing), all destroyed.
C2_Witness ==
    /\ live = {}
    /\ Cardinality({ h \in wrapped : h >= ReservedLimit }) >= 2
    /\ \E h \in wrapped : h >= ReservedLimit /\ osCloseRets[h] = <<-1>>
    /\ \E h \in wrapped : h >= ReservedLimit /\ osCloseRets[h] = <<0>>

\* C3: no two live instances hold the same non-sentinel descriptor value, and
\* a move never leaves source and destination with the same non-sentinel value.
C3_ExclusiveOwnership ==
    /\ \A i \in live, j \in live :
          (i # j /\ m_fd[i] # Sentinel) => m_fd[i] # m_fd[j]
    /\ (last.op \in {"move_construct", "move_assign"} /\ m_fd[last.self] # Sentinel)
          => m_fd[last.self] # m_fd[last.other]

\* A move assignment out of an owning instance into another owning instance.
C3_Witness ==
    /\ last.op = "move_assign"
    /\ last.pre # Sentinel
    /\ last.preOther # Sentinel
    /\ m_fd[last.self] = last.preOther
    /\ m_fd[last.other] = Sentinel

\* C4 as stated: close() on any instance holding a non-sentinel value succeeds
\* when ::close does not fail and leaves fd() = -1.
C4_Original ==
    (last.op = "close" /\ last.pre # Sentinel /\ ~FailedCloseIn(last.events))
        => (~last.threw /\ fd(last.self) = Sentinel)

\* C4 (amended): close() without an OS failure succeeds; an instance holding a
\* descriptor >= 2 is left with fd() = -1 after one successful ::close, an
\* instance holding 0 or 1 keeps its value and no ::close is made.
C4_CloseOnce ==
    (last.op = "close" /\ last.pre # Sentinel /\ ~FailedCloseIn(last.events))
        => /\ ~last.threw
           /\ last.pre >= ReservedLimit =>
                 /\ fd(last.self) = Sentinel
                 /\ osCloseRets[last.pre] = <<0>>
           /\ last.pre \in Reserved =>
                 /\ fd(last.self) = last.pre
                 /\ last.events = <<>>

C4_Witness ==
    /\ last.op = "close"
    /\ last.pre >= ReservedLimit
    /\ ~last.threw
    /\ osCloseRets[last.pre] = <<0>>
    /\ fd(last.self) = Sentinel

\* C5: a close() whose ::close fails reports the platform error code and still
\* leaves the instance with -1; no later step makes another ::close on a
\* descriptor whose ::close has failed.
C5_FailedCloseReleases ==
    [][ /\ (last'.op = "close" /\ FailedCloseIn(last'.events))
            => /\ last'.pre >= ReservedLimit
               /\ last'.threw
               /\ last'.code = errno'
               /\ last'.code \in Errnos \ {"none"}
               /\ m_fd'[last'.self] = Sentinel
        /\ \A h \in Handles :
            (osCloseRets[h] # <<>> /\ osCloseRets[h][Len(osCloseRets[h])] # 0)
                => osCloseRets'[h] = osCloseRets[h] ]_vars

\* A failed explicit close followed by destruction of that (now empty) instance.
C5_Witness ==
    /\ last.op = "destroy"
    /\ last.pre = Sentinel
    /\ live = {}
    /\ Cardinality(wrapped) = 1
    /\ \E h \in wrapped : osCloseRets[h] = <<-1>>
    /\ errno # "none"

\* C6: close() on an instance holding -1 does not fail, makes no ::close and
\* changes neither the instance nor the OS state.
C6_CloseIdempotent ==
    [][ (last'.op = "close" /\ last'.self \in live /\ m_fd[last'.self] = Sentinel
            /\ last'.pre = Sentinel)
        => /\ ~last'.threw
           /\ last'.events = <<>>
           /\ UNCHANGED <<live, m_fd, osOpen, errno, osCloseRets, wrapped>> ]_vars

\* close() on an empty instance after a descriptor was closed.
C6_Witness ==
    /\ last.op = "close"
    /\ last.pre = Sentinel
    /\ live = {last.self}
    /\ \E h \in wrapped : closeCalls(h) = 1

\* The ::close of handle h precedes, within events, the store of value v into
\* instance i, and no such store comes before it.
ClosePrecedesTake(events, h, i, v) ==
    \E k \in OsCloseEvents(events) :
        /\ events[k].fd = h
        /\ \E j \in (k + 1)..Len(events) : events[j] = StoreEvent(i, v)
        /\ \A j \in 1..k : events[j] # StoreEvent(i, v)

\* What C7 says of every move assignment out of an owning source, given the
\* condition under which the destination's prior descriptor is released.
MoveAssignTransfers(releases) ==
    (last.op = "move_assign" /\ last.preOther # Sentinel)
        => /\ fd(last.self) = last.preOther
           /\ fd(last.other) = Sentinel
           /\ ~ClosedIn(last.events, last.preOther)
           /\ releases => ClosePrecedesTake(last.events, last.pre, last.self,
                                            last.preOther)

\* C7 as stated: after a = move(b) with b owning, a holds b's value and b holds
\* -1, b's descriptor is not closed, and whenever a held a non-sentinel value
\* its ::close precedes the transfer.
C7_Original == MoveAssignTransfers(last.pre # Sentinel)

\* C7 (amended): as above, with the ::close of a's prior descriptor preceding
\* the transfer whenever a held a descriptor >= 2; when a held 0 or 1 (or -1)
\* the assignment makes no ::close at all.
C7_MoveAssignOrder ==
    /\ MoveAssignTransfers(last.pre >= ReservedLimit)
    /\ (last.op = "move_assign" /\ last.pre < ReservedLimit)
          => OsCloseEvents(last.events) = {}

C7_Witness ==
    /\ last.op = "move_assign"
    /\ last.pre >= ReservedLimit
    /\ last.preOther >= ReservedLimit
    /\ fd(last.self) = last.preOther
    /\ closeCalls(last.pre) = 1

\* C8: a move assignment whose ::close of the destination's prior descriptor
\* fails raises nothing and still completes the transfer; the prior descriptor
\* is held by no instance afterwards.
C8_MoveAssignNeverFails ==
    /\ last.op = "move_assign" => ~last.threw
    /\ (last.op = "move_assign" /\ FailedCloseIn(last.events))
          => /\ fd(last.self) = last.preOther
             /\ fd(last.other) = Sentinel
             /\ Holders(last.pre) = {}

C8_Witness ==
    /\ last.op = "move_assign"
    /\ FailedCloseIn(last.events)
    /\ last.preOther >= ReservedLimit
    /\ fd(last.self) = last.preOther

\* C9: descriptors 0 and 1 are never passed to ::close: close(), destruction
\* and move assignment into an instance holding 0 or 1 make no ::close and
\* raise nothing, and close() leaves the value in place.
C9_ReservedNeverClosed ==
    /\ \A h \in Reserved : closeCalls(h) = 0 /\ h \in osOpen
    /\ (last.op \in {"close", "destroy", "move_assign"} /\ last.pre \in Reserved)
          => /\ ~last.threw
             /\ last.code = "none"
             /\ OsCloseEvents(last.events) = {}
    /\ (last.op = "close" /\ last.pre \in Reserved) => fd(last.self) = last.pre

\* Both reserved values wrapped; one closed and destroyed, the other just
\* overwritten by a move assignment.
C9_Witness ==
    /\ Reserved \subseteq wrapped
    /\ last.op = "move_assign"
    /\ last.pre \in Reserved
    /\ \A h \in Reserved : Holders(h) = {}

\* C10: a destructor step changes the OS state exactly as some outcome of
\* close() on that instance would (one ::close for a descriptor >= 2, none
\* otherwise) and raises nothing, while an explicit close() whose ::close
\* fails raises.
C10_DestroyLikeClose ==
    [][ /\ \A i \in live :
             live' = live \ {i}
                => /\ ~last'.threw
                   /\ last'.code = "none"
                   /\ \E r \in CloseResults(i, m_fd[i], osOpen, errno) :
                         /\ osOpen' = r.open
                         /\ errno' = r.errno
                         /\ last'.events = r.events
                         /\ osCloseRets' = LogCloses(osCloseRets, r.events)
                   /\ Cardinality(OsCloseEvents(last'.events))
                         = IF m_fd[i] >= ReservedLimit THEN 1 ELSE 0
                   /\ \A k \in OsCloseEvents(last'.events) :
                         last'.events[k].fd = m_fd[i]
        /\ (last'.op = "close" /\ FailedCloseIn(last'.events)) => last'.threw
      ]_vars

\* A destructor whose ::close failed.
C10_Witness ==
    /\ last.op = "destroy"
    /\ last.pre >= ReservedLimit
    /\ FailedCloseIn(last.events)
    /\ ~last.threw
    /\ last.self \notin live

\* ---- helpers for the properties of open_file and file_size --------------
Contains(msg, part) == \E k \in 1..Len(msg) : msg[k] = part
OpenStep == last'.op = "open" /\ last' # last

\* C11: open_file is all-or-nothing.  When ::open fails the call raises an
\* error carrying the platform error code and a message containing the
\* attempted path, and neither the descriptor table nor any instance changes;
\* when it succeeds exactly one descriptor that was not open before is
\* returned, it refers to the attempted path, and no instance holds it yet.
C11_OpenAllOrNothing ==
    [][ OpenStep =>
          LET failed == \E k \in 1..Len(last'.events) : last'.events[k].ret < 0
          IN  /\ failed =>
                   /\ last'.threw
                   /\ last'.returned = <<>>
                   /\ last'.code = errno'
                   /\ last'.code \in Errnos \ {"none"}
                   /\ Contains(last'.msg, last'.path)
                   /\ UNCHANGED <<osOpen, fdObj, fs, live, m_fd, wrapped>>
              /\ ~failed =>
                   /\ ~last'.threw
                   /\ Len(last'.returned) = 1
                   /\ last'.returned[1] \notin osOpen
                   /\ osOpen' = osOpen \cup {last'.returned[1]}
                   /\ fdObj'[last'.returned[1]] = last'.path
                   /\ UNCHANGED <<live, m_fd, wrapped>> ]_vars

\* The descriptor returned by a successful open_file, wrapped into an instance.
C11_Witness ==
    /\ last.op = "wrap"
    /\ last.pre >= ReservedLimit
    /\ fdObj[last.pre] \in Paths
    /\ fd(last.self) = last.pre
    /\ errno = "ENOENT"

\* C12: open_file on a path that does not exist, without the creation flag,
\* raises ENOENT and returns no descriptor; when the next operation is
\* open_file on the same path with the creation flag, it returns a descriptor
\* and file_size() on that descriptor returns 0.
C12_OpenMissingThenCreate ==
    [][ /\ (OpenStep /\ ~fs[last'.path].exists /\ ~last'.creat)
              => /\ last'.threw
                 /\ last'.code = "ENOENT"
                 /\ last'.returned = <<>>
                 /\ ~fs'[last'.path].exists
        /\ (/\ last.op = "open" /\ last.threw /\ ~last.creat
            /\ ~fs[last.path].exists
            /\ OpenStep /\ last'.path = last.path /\ last'.creat)
              => /\ ~last'.threw
                 /\ Len(last'.returned) = 1
                 /\ \A i \in Inst :
                       \A r \in FileSizeResults(i, last'.returned[1], osOpen',
                                                fdObj', fdPos', fs', errno') :
                          ~r.threw /\ r.value = <<0>> ]_vars

\* The path that was missing has been created by open_file after a failed
\* open, its descriptor wrapped, and file_size() returned 0.
C12_Witness ==
    /\ last.op = "file_size"
    /\ ~last.threw
    /\ last.value = <<0>>
    /\ fdObj[last.pre] = "b"
    /\ errno = "ENOENT"
    /\ fs["b"] = [exists |-> TRUE, size |-> 0]

\* C13: file_size() on an instance holding an open descriptor succeeds and
\* returns the present length of the file the descriptor was opened on,
\* whatever the position of the descriptor.
C13_FileSizeIsLength ==
    (last.op = "file_size" /\ last.pre # Sentinel)
        => /\ last.pre \in osOpen
           /\ fdObj[last.pre] \in Paths
           /\ ~last.threw
           /\ last.value = <<fs[fdObj[last.pre]].size>>

\* file_size() on a file that has grown since it was created, through a
\* descriptor positioned past the start.
C13_Witness ==
    /\ last.op = "file_size"
    /\ last.pre # Sentinel
    /\ fdObj[last.pre] = "b"
    /\ fs["b"].size > 0
    /\ fdPos[last.pre] > 0
    /\ last.value = <<fs["b"].size>>

\* C14: a call of fd() or file_size(), whether file_size() returns a value or
\* raises, changes no instance's descriptor value, no instance's existence and
\* nothing in the descriptor table; fd() returns the value held.
C14_AccessorsReadOnly ==
    [][ (last'.op \in {"fd", "file_size"})
          => /\ UNCHANGED <<live, m_fd, osOpen, fdObj, fdPos, fs, osCloseRets,
                            wrapped>>
             /\ last'.op = "fd" => last'.value = <<m_fd[last'.self]>> ]_vars

\* file_size() has just failed on an instance holding a stale descriptor
\* value while another instance owns an open descriptor.
C14_Witness ==
    /\ last.op = "file_size"
    /\ last.threw
    /\ fd(last.self) >= ReservedLimit
    /\ \E j \in live : j # last.self /\ m_fd[j] \in osOpen /\ m_fd[j] >= ReservedLimit

\* ---- the lifecycle state machine ----------------------------------------
\* The state of instance i given the set of live instances and their values.
StateOf(i, lv, fds) ==
    IF i \notin lv THEN "none"
    ELSE IF fds[i] = Sentinel THEN "empty" ELSE "owning"

\* The instances the step just taken operated on.
Operands == IF last'.op \in {"move_construct", "move_assign"}
            THEN {last'.self, last'.other} ELSE {last'.self}

\* Within a move assignment: the destination's value after the close() the
\* assignment starts with, before it takes the source's value.
AfterInnerClose ==
    IF OsCloseEvents(last'.events) # {} THEN Sentinel ELSE last'.pre

\* The transitions of instance i over one step.  reservedMoveIn tells whether
\* a move assignment into an instance that still holds a (reserved) value
\* after its inner close() counts among the transitions.
Transitions(i, reservedMoveIn) ==
    LET before == StateOf(i, live, m_fd)
        after == StateOf(i, live', m_fd')
        movedOut == /\ last'.op \in {"move_construct", "move_assign"}
                    /\ last'.other = i /\ last'.self # i
        movedInto == last'.op = "move_assign" /\ last'.self = i
        innerReleased == movedInto /\ AfterInnerClose = Sentinel
        innerKept == movedInto /\ AfterInnerClose # Sentinel /\ reservedMoveIn
    IN  /\ i \notin Operands => (before = after /\ m_fd'[i] = m_fd[i])
        /\ (before = "owning" /\ after = "empty")
              => \/ last'.op = "close" /\ last'.self = i
                 \/ movedOut
                 \/ innerReleased /\ last'.preOther = Sentinel
                 \/ innerKept /\ last'.preOther = Sentinel
        /\ (before = "owning" /\ after = "none")
              => last'.op = "destroy" /\ last'.self = i
        /\ (before = "empty" /\ after = "owning")
              => movedInto /\ last'.preOther # Sentinel
        /\ (before = "none" /\ after = "owning")
              => \/ last'.op = "wrap" /\ last'.self = i /\ last'.pre # Sentinel
                 \/ /\ last'.op = "move_construct" /\ last'.self = i
                    /\ last'.preOther # Sentinel
        /\ (i \in Operands /\ before = "owning" /\ after = "owning")
              => \/ /\ last'.op = "close" /\ last'.self = i
                    /\ m_fd[i] \in Reserved /\ m_fd'[i] = m_fd[i]
                 \/ innerReleased /\ last'.preOther # Sentinel
                 \/ innerKept /\ last'.preOther # Sentinel

\* C15 as stated: owning -> empty only by close (explicit, or the one a move
\* assignment starts with), destruction or move-out; empty -> owning only by
\* construction or by move-in from an owning source; the only operations that
\* leave an owning instance owning are the no-op close of a reserved value
\* (a move assignment that first releases and then takes over is the two
\* listed transitions in a row).
C15_Original == [][\A i \in Inst : Transitions(i, FALSE)]_vars

\* C15 (amended): as above, and in addition a move assignment into an
\* instance holding the reserved value 0 or 1 replaces that value without any
\* close: the instance becomes empty when the source was empty and stays
\* owning when the source was owning.
C15_Lifecycle == [][\A i \in Inst : Transitions(i, TRUE)]_vars

\* An instance holding a reserved value has become empty by a move assignment
\* from an empty source.
C15_Witness ==
    /\ last.op = "move_assign"
    /\ last.pre \in Reserved
    /\ last.preOther = Sentinel
    /\ fd(last.self) = Sentinel
    /\ last.events = <<StoreEvent(last.self, Sentinel), StoreEvent(last.other, Sentinel)>>

\* The OS calls an instance made during the step just taken.
InstanceCalls == { k \in 1..Len(last'.events) :
                      last'.events[k].ev \in {"os_close", "os_fstat"} }

\* C16: an instance never hands a released descriptor value to the OS.  Every
\* ::close or ::fstat it makes is passed the value it holds at that moment;
\* after a close() that called ::close (successfully or not) and after being
\* moved from, it holds -1; and file_size() on an instance holding -1 passes
\* -1 to ::fstat and raises EBADF, whatever now occupies its old descriptor.
C16_NoUseAfterRelease ==
    [][ /\ \A k \in InstanceCalls :
              /\ last'.events[k].inst \in live
              /\ last'.events[k].fd = m_fd[last'.events[k].inst]
        /\ (last'.op = "close" /\ OsCloseEvents(last'.events) # {})
              => m_fd'[last'.self] = Sentinel
        /\ (last'.op \in {"move_construct", "move_assign"})
              => m_fd'[last'.other] = Sentinel
        /\ (last'.op = "file_size" /\ last'.self \in live
              /\ m_fd[last'.self] = Sentinel)
              => /\ last'.threw
                 /\ last'.code = "EBADF"
                 /\ last'.value = <<>>
                 /\ last'.events = <<OsFstatEvent(last'.self, Sentinel, -1)>>
      ]_vars

\* file_size() has failed on the only live instance, which is empty, while a
\* descriptor value that was wrapped and closed is again open on a file.
C16_Witness ==
    /\ last.op = "file_size"
    /\ last.pre = Sentinel
    /\ last.threw
    /\ live = {last.self}
    /\ \E h \in wrapped : /\ closeCalls(h) = 1
                          /\ h \in osOpen
                          /\ fdObj[h] \in Paths
                          /\ osCloseRets[h] = <<0>>

\* C17: in the MSVC build, file_size() queries the length with the thread's
\* invalid-parameter handler replaced by the no-op one and the assert report
\* mode set to 0; whether it returns or raises, handler and report mode are
\* afterwards exactly what they were before the call; a value that is not an
\* open descriptor makes it raise EBADF, and the process is never ended.
C17_CrtSettingsRestored ==
    [][ (last'.op = "file_size_win" /\ last'.self \in live)
          => /\ ~crt'.aborted
             /\ crt'.handler = crt.handler
             /\ crt'.mode = crt.mode
             /\ Len(last'.events) = 1
             /\ last'.events[1].ev = "os_filelength"
             /\ last'.events[1].handler = "noop"
             /\ last'.events[1].mode = "none"
             /\ last'.events[1].fd = m_fd[last'.self]
             /\ m_fd[last'.self] \notin osOpen
                   => last'.threw /\ last'.code = "EBADF"
             /\ m_fd[last'.self] \in osOpen => ~last'.threw
      ]_vars

\* file_size() has raised for an invalid descriptor while the application
\* had its own handler installed and a report window enabled.
C17_Witness ==
    /\ last.op = "file_size_win"
    /\ last.threw
    /\ last.code = "EBADF"
    /\ crt = [handler |-> "app", mode |-> "wndw", aborted |-> FALSE]

\* C18: with the assertion compiled out, a = move(a) on an instance holding a
\* descriptor >= 2 calls ::close on it exactly once, raises nothing and
\* leaves the instance holding -1, not the closed value.
C18_SelfMoveAssign ==
    (last.op = "self_move_assign" /\ last.pre >= ReservedLimit)
        => /\ fd(last.self) = Sentinel
           /\ ~last.threw
           /\ Cardinality(OsCloseEvents(last.events)) = 1
           /\ \A k \in OsCloseEvents(last.events) : last.events[k].fd = last.pre
           /\ closeCalls(last.pre) = 1
           /\ Holders(last.pre) = {}

\* A self move assignment whose ::close failed.
C18_Witness ==
    /\ last.op = "self_move_assign"
    /\ last.pre >= ReservedLimit
    /\ FailedCloseIn(last.events)
    /\ fd(last.self) = Sentinel
====
